---------------------------- MODULE Spec2Model ----------------------------
(***************************************************************************)
(* The expense dashboard of smart-spend-flow: Dashboard (profile and       *)
(* expense loading, today's total, limit alert, summary cards),            *)
(* ExpenseChart (totals by category), ExpenseForm (validation and insert)  *)
(* and ExpenseList (delete), together with the hosted store and the clock  *)
(* they talk to.                                                           *)
(*                                                                         *)
(* Amounts are integer cents.  A calendar date "YYYY-MM-DD" is a day       *)
(* number (1, 2, ...) and the empty date string is EmptyDate.  A           *)
(* description is represented by its length.  Record ids are positive      *)
(* integers and a null id is NoId.                                         *)
(***************************************************************************)
EXTENDS Integers, Sequences, FiniteSets, TLC

VARIABLES
    now,              \* the wall clock, in ticks (TicksPerDay ticks a day)
    session,          \* whether supabase.auth.getUser() finds a user
    store,            \* the rows of table "expenses" of the user
    nextId,           \* the id the store gives the next inserted row
    profile,          \* Dashboard state: Profile | null
    expenses,         \* Dashboard state: Expense[]
    todayTotal,       \* Dashboard state
    showExpenseForm,  \* Dashboard state
    loading,          \* Dashboard state
    effectPending,    \* the [expenses] effect is scheduled and has not run
    view,             \* what the last render of Dashboard displayed
    toast,            \* the notification the last step raised, NULL when none
    profilePc,        \* where fetchProfile is
    fetches,          \* the running invocations of fetchExpenses, in order of call
    form,             \* ExpenseForm state of the mounted form: loading
    submits,          \* the running invocations of handleSubmit, past validation
    deleteId,         \* ExpenseList state
    deleting,         \* ExpenseList state
    del,              \* the delete request of the running handleDelete
    ops               \* how many inserts and ops were started

vars == <<now, session, store, nextId, profile, expenses, todayTotal,
          showExpenseForm, loading, effectPending, view, toast, profilePc,
          fetches, form, submits, deleteId, deleting, del, ops>>

(***************************************************************************)
(* Bounds of the model.                                                    *)
(***************************************************************************)
MaxTick == 2
MaxOps == 1

TicksPerDay == 2
MaxDescription == 500

NULL == [null |-> TRUE]
NoId == 0
EmptyDate == 0
NaN == [nan |-> TRUE, cents |-> 0]
Num(cents) == [nan |-> FALSE, cents |-> cents]

CATEGORIES == {"Food", "Travel"}
DailyLimits == {0, 500}
SeedExpenses ==
    { [id |-> 1, category |-> "Food", amount |-> 500, description |-> 0, date |-> 1] }

\* rows a store may hold: categories of the form, other strings, repeated amounts
SampleRows ==
    { [id |-> 1, category |-> "Food", amount |-> 500, description |-> 0, date |-> 1],
      [id |-> 2, category |-> "Food", amount |-> 500, description |-> 12, date |-> 2],
      [id |-> 3, category |-> "Travel", amount |-> 1999, description |-> 0, date |-> 1],
      [id |-> 4, category |-> "", amount |-> 1, description |-> 0, date |-> 2],
      [id |-> 5, category |-> "rent / utilities", amount |-> 120050, description |-> 0, date |-> 1],
      [id |-> 6, category |-> "Food", amount |-> 250, description |-> 0, date |-> 1] }

(***************************************************************************)
(* The field values a user submits: accepted ones (either category, a date  *)
(* of a past day, a date later than any day the clock reaches) and one      *)
(* submission breaking each rule of the schema.                            *)
(***************************************************************************)
Fields(category, amount, description, date) ==
    [category |-> category, amount |-> amount, description |-> description, date |-> date]
LastDay == (MaxTick \div TicksPerDay) + 1
FormInputs ==
    { Fields("Food", <<"2">>, 0, 1),
      Fields("Travel", <<"2", ".", "5">>, MaxDescription, 1),
      Fields("Food", <<"2">>, 0, LastDay + 1),
      Fields("", <<"2">>, 0, 1),
      Fields("Food", <<>>, 0, 1),
      Fields("Food", <<"0">>, 0, 1),
      Fields("Food", <<"-", "2">>, 0, 1),
      Fields("Food", <<"2">>, MaxDescription + 1, 1),
      Fields("Food", <<"2">>, 0, EmptyDate) }

(***************************************************************************)
(* new Date().toISOString().split("T")[0]: the date of an instant.         *)
(***************************************************************************)
ISODate(t) == (t \div TicksPerDay) + 1

Max(a, b) == IF a >= b THEN a ELSE b

(***************************************************************************)
(* Number.prototype.toFixed(2) of a non-negative amount of cents.          *)
(***************************************************************************)
ToFixed2(c) ==
    ToString(c \div 100) \o "." \o ToString((c % 100) \div 10) \o ToString(c % 10)

(***************************************************************************)
(* parseFloat of the text of the amount input: an optional sign, digits,   *)
(* and at most two decimals, as Num(cents); NaN when no number starts the  *)
(* text.                                                                   *)
(***************************************************************************)
Digit(ch) ==
    CASE ch = "0" -> 0 [] ch = "1" -> 1 [] ch = "2" -> 2 [] ch = "3" -> 3
      [] ch = "4" -> 4 [] ch = "5" -> 5 [] ch = "6" -> 6 [] ch = "7" -> 7
      [] ch = "8" -> 8 [] ch = "9" -> 9 [] OTHER -> -1

RECURSIVE ParseDigits(_, _, _)
ParseDigits(s, i, acc) ==
    IF i > Len(s) \/ Digit(s[i]) < 0 THEN <<acc, i>>
    ELSE ParseDigits(s, i + 1, 10 * acc + Digit(s[i]))

parseFloat(s) ==
    LET neg   == Len(s) >= 1 /\ s[1] = "-"
        start == IF neg \/ (Len(s) >= 1 /\ s[1] = "+") THEN 2 ELSE 1
        int   == ParseDigits(s, start, 0)
        dot   == int[2] <= Len(s) /\ s[int[2]] = "."
        d1    == IF dot /\ int[2] + 1 <= Len(s) THEN Digit(s[int[2] + 1]) ELSE -1
        d2    == IF d1 >= 0 /\ int[2] + 2 <= Len(s) THEN Digit(s[int[2] + 2]) ELSE -1
        cents == 100 * int[1] + 10 * Max(d1, 0) + Max(d2, 0)
    IN  IF int[2] = start /\ d1 < 0 THEN NaN
        ELSE IF neg THEN Num(0 - cents) ELSE Num(cents)

(***************************************************************************)
(* expenseSchema.parse: whether zod accepts the submitted fields.          *)
(***************************************************************************)
CategoryOk(category) == category # ""
AmountOk(amount) == ~amount.nan /\ amount.cents > 0
DescriptionOk(description) == description <= MaxDescription
DateOk(date) == date # EmptyDate

expenseSchema(category, amount, description, date) ==
    /\ CategoryOk(category)
    /\ AmountOk(amount)
    /\ DescriptionOk(description)
    /\ DateOk(date)

(***************************************************************************)
(* Aggregation.                                                            *)
(***************************************************************************)
RECURSIVE SumAmounts(_)
SumAmounts(es) ==
    IF es = <<>> THEN 0 ELSE SumAmounts(SubSeq(es, 1, Len(es) - 1)) + es[Len(es)].amount

FilterDate(es, day) == SelectSeq(es, LAMBDA e : e.date = day)

\* Dashboard's "Total Expenses" card: expenses.reduce((sum, exp) => sum + amount, 0)
grandTotal(es) == SumAmounts(es)

\* a reduce step that assigns the amount instead of adding it
AddToCategoryOverwrite(acc, expense) ==
    [c \in DOMAIN acc \cup {expense.category} |->
        IF c = expense.category THEN expense.amount ELSE acc[c]]

\* ExpenseChart: one step of the reduce, acc[category] = (acc[category] || 0) + amount
AddToCategory(acc, expense) ==
    LET category == expense.category
        old == IF category \in DOMAIN acc THEN acc[category] ELSE 0
    IN  [c \in DOMAIN acc \cup {category} |->
            IF c = category THEN old + expense.amount ELSE acc[c]]

RECURSIVE categoryTotals(_)
categoryTotals(es) ==
    IF es = <<>> THEN [c \in {} |-> 0]
    ELSE AddToCategory(categoryTotals(SubSeq(es, 1, Len(es) - 1)), es[Len(es)])

(***************************************************************************)
(* Limit evaluation, as Dashboard's render computes it.                    *)
(***************************************************************************)
\* the comparison made inclusive
isOverLimitInclusive(p, total) == p # NULL /\ total >= p.daily_limit

\* a missing profile read as a limit of zero
isOverLimitDefaultZero(p, total) == total > (IF p = NULL THEN 0 ELSE p.daily_limit)

\* profile && todayTotal > profile.daily_limit, as the condition of the alert
isOverLimit(p, total) == p # NULL /\ total > p.daily_limit

LimitText(p) == IF p = NULL THEN "0.00" ELSE ToFixed2(p.daily_limit)

\* the difference without its floor
RemainingUnfloored(p, total) == (IF p = NULL THEN 0 ELSE p.daily_limit) - total

\* Math.max(0, (profile?.daily_limit || 0) - todayTotal)
Remaining(p, total) == Max(0, (IF p = NULL THEN 0 ELSE p.daily_limit) - total)

(***************************************************************************)
(* One render of Dashboard (with ExpenseChart and ExpenseList) at instant  *)
(* t: the values the page shows.                                           *)
(***************************************************************************)
Render(p, es, total, ld, t) ==
    [ alert       |-> isOverLimit(p, total),
      todayTotal  |-> ToFixed2(total),
      todayCount  |-> Len(FilterDate(es, ISODate(t))),
      today       |-> ISODate(t),
      limit       |-> LimitText(p),
      remaining   |-> ToFixed2(Remaining(p, total)),
      grandTotal  |-> grandTotal(es),
      chart       |-> categoryTotals(es),
      listLoading |-> ld ]

(***************************************************************************)
(* The store's answer to .order("date", { ascending: false }); rows of one *)
(* date come by id.                                                        *)
(***************************************************************************)
RECURSIVE OrderByDateDesc(_)
OrderByDateDesc(rows) ==
    IF rows = {} THEN <<>>
    ELSE LET first == CHOOSE r \in rows :
                        \A q \in rows : q.date < r.date \/ (q.date = r.date /\ q.id >= r.id)
         IN  <<first>> \o OrderByDateDesc(rows \ {first})

\* toast({ title, description, variant })
ErrorToast(description) ==
    [title |-> "Error", description |-> description, variant |-> "destructive"]
SuccessToast(description) ==
    [title |-> "Success", description |-> description, variant |-> "default"]
\* the description is the message of the first zod issue
ValidationToast ==
    [title |-> "Validation Error", description |-> "errors[0].message",
     variant |-> "destructive"]

\* ExpenseForm's loading state as the form mounts, and of no mounted form
NoForm == [loading |-> FALSE]

\* the running handleSubmit invocations lose their form when it unmounts
Unmount(ss) == [i \in DOMAIN ss |-> [ss[i] EXCEPT !.mounted = FALSE]]

\* a sequence without its i-th element: an invocation that returned
Remove(seq, i) == SubSeq(seq, 1, i - 1) \o SubSeq(seq, i + 1, Len(seq))

\* fetchExpenses up to its first await: setLoading(true), then getUser()
CallFetchExpenses(fs) == Append(fs, [pc |-> "getUser", error |-> FALSE, data |-> <<>>])

\* ExpenseList renders its rows and the delete dialog
ListShown == ~loading /\ expenses # <<>>

NoDelete == [pc |-> "idle", id |-> NoId, error |-> FALSE]

\* the store numbers its rows on
LastId(rows) ==
    IF rows = {} THEN 0 ELSE CHOOSE m \in {r.id : r \in rows} : \A r \in rows : r.id <= m

\* Dashboard as it mounts, its two fetches called, over a store holding rows
Mounted(rows) ==
    /\ now = TicksPerDay - 1
    /\ session = TRUE
    /\ store = rows
    /\ nextId = LastId(rows) + 1
    /\ profile = NULL
    /\ expenses = <<>>
    /\ todayTotal = 0
    /\ showExpenseForm = FALSE
    /\ loading = TRUE
    /\ effectPending = FALSE
    /\ view = Render(NULL, <<>>, 0, TRUE, TicksPerDay - 1)
    /\ toast = NULL
    /\ profilePc = "getUser"
    /\ fetches = CallFetchExpenses(<<>>)
    /\ form = NoForm
    /\ submits = <<>>
    /\ deleteId = NoId
    /\ deleting = FALSE
    /\ del = NoDelete
    /\ ops = 0

Init == Mounted(SeedExpenses)

(***************************************************************************)
(* The environment: the clock and the session.  The store serves a request *)
(* in the step that sends it: a request is sent by a resuming handler, whose *)
(* other effects are local to the invocation.                              *)
(***************************************************************************)
\* time passes; the [expenses] effect runs right after the commit that schedules it
Tick ==
    /\ ~effectPending
    /\ now < MaxTick
    /\ now' = now + 1
    /\ toast' = NULL
    /\ UNCHANGED <<session, store, nextId, profile, expenses, todayTotal,
                   showExpenseForm, loading, effectPending, view, profilePc,
                   fetches, form, submits, deleteId, deleting, del, ops>>

SessionExpire ==
    /\ session
    /\ session' = FALSE
    /\ toast' = NULL
    /\ UNCHANGED <<now, store, nextId, profile, expenses, todayTotal,
                   showExpenseForm, loading, effectPending, view, profilePc,
                   fetches, form, submits, deleteId, deleting, del, ops>>

(***************************************************************************)
(* Dashboard.                                                              *)
(***************************************************************************)
\* fetchProfile resumes from getUser()
ProfileGetUser ==
    /\ ~effectPending
    /\ profilePc = "getUser"
    /\ profilePc' = IF session THEN "query" ELSE "done"
    /\ toast' = NULL
    /\ UNCHANGED <<now, session, store, nextId, profile, expenses, todayTotal,
                   showExpenseForm, loading, effectPending, view, fetches, form, submits, deleteId, deleting, del, ops>>

\* fetchProfile resumes from the query on "profiles", which failed or found the
\* user's row, with daily_limit limit
ProfileResume(ok, limit) ==
    /\ ~effectPending
    /\ profilePc = "query"
    /\ profilePc' = "done"
    /\ IF ok
       THEN /\ profile' = [daily_limit |-> limit, full_name |-> "User"]
            /\ toast' = NULL
            /\ view' = Render(profile', expenses, todayTotal, loading, now)
       ELSE /\ toast' = ErrorToast("Failed to load profile")
            /\ UNCHANGED <<profile, view>>
    /\ UNCHANGED <<now, session, store, nextId, expenses, todayTotal,
                   showExpenseForm, loading, effectPending,
                   fetches, form, submits, deleteId, deleting, del, ops>>

\* fetchExpenses resumes from getUser(): without a user it returns; otherwise the
\* query goes out and the store answers it from the rows it holds then, or fails
FetchQuery(i, ok) ==
    /\ ~effectPending
    /\ fetches[i].pc = "getUser"
    /\ fetches' =
          IF ~session THEN Remove(fetches, i)
          ELSE [fetches EXCEPT ![i] =
                  [pc |-> "response", error |-> ~ok,
                   data |-> IF ok THEN OrderByDateDesc(store) ELSE <<>>]]
    /\ toast' = NULL
    /\ UNCHANGED <<now, session, store, nextId, profile, expenses, todayTotal,
                   showExpenseForm, loading, effectPending, view, profilePc,
                   form, submits, deleteId, deleting, del, ops>>

\* fetchExpenses resumes from the query on "expenses"
FetchResume(i) ==
    /\ ~effectPending
    /\ fetches[i].pc = "response"
    /\ fetches' = Remove(fetches, i)
    /\ loading' = FALSE
    /\ IF fetches[i].error
       THEN /\ toast' = ErrorToast("Failed to load expenses")
            /\ UNCHANGED <<expenses, effectPending>>
            /\ view' = IF loading THEN Render(profile, expenses, todayTotal, FALSE, now)
                       ELSE view
       ELSE /\ expenses' = fetches[i].data
            /\ effectPending' = TRUE
            /\ toast' = NULL
            /\ view' = Render(profile, expenses', todayTotal, FALSE, now)
    /\ UNCHANGED <<now, session, store, nextId, profile, todayTotal,
                   showExpenseForm, profilePc,
                   form, submits, deleteId, deleting, del, ops>>

\* the [expenses] effect
calculateTodayTotal ==
    /\ effectPending
    /\ effectPending' = FALSE
    /\ LET today == ISODate(now)
           todayExpenses == FilterDate(expenses, today)
           total == SumAmounts(todayExpenses)
       IN  /\ todayTotal' = total
           /\ view' = IF total # todayTotal
                      THEN Render(profile, expenses, total, loading, now)
                      ELSE view
    /\ toast' = NULL
    /\ UNCHANGED <<now, session, store, nextId, profile, expenses,
                   showExpenseForm, loading, profilePc,
                   fetches, form, submits, deleteId, deleting, del, ops>>

\* the "Add New Expense" button
OpenForm ==
    /\ ~effectPending
    /\ ~showExpenseForm
    /\ showExpenseForm' = TRUE
    /\ form' = NoForm
    /\ view' = Render(profile, expenses, todayTotal, loading, now)
    /\ toast' = NULL
    /\ UNCHANGED <<now, session, store, nextId, profile, expenses, todayTotal,
                   loading, effectPending, profilePc,
                   fetches, submits, deleteId, deleting, del, ops>>

\* onCancel
CancelForm ==
    /\ ~effectPending
    /\ showExpenseForm
    /\ showExpenseForm' = FALSE
    /\ form' = NoForm
    /\ submits' = Unmount(submits)
    /\ view' = Render(profile, expenses, todayTotal, loading, now)
    /\ toast' = NULL
    /\ UNCHANGED <<now, session, store, nextId, profile, expenses, todayTotal,
                   loading, effectPending, profilePc,
                   fetches, deleteId, deleting, del, ops>>

(***************************************************************************)
(* ExpenseForm.                                                            *)
(***************************************************************************)
\* handleSubmit up to its first await.  The fields category, amount,
\* description and date are written only by their onChange handlers
\* (setCategory, setAmount, setDescription, setDate) and read only here, so
\* their values are drawn where handleSubmit reads them.
handleSubmit(category, amountText, description, date) ==
    /\ ~effectPending
    /\ showExpenseForm
    /\ ~form.loading
    /\ LET amount == parseFloat(amountText)
       IN  IF expenseSchema(category, amount, description, date)
           THEN /\ ops < MaxOps
                /\ form' = [form EXCEPT !.loading = TRUE]
                /\ ops' = ops + 1
                /\ submits' = Append(submits,
                      [pc |-> "getUser", mounted |-> TRUE, error |-> FALSE,
                       row |-> [category |-> category,
                                amount |-> amount.cents,
                                description |-> description,
                                date |-> date]])
                /\ toast' = NULL
           ELSE /\ toast' = ValidationToast
                /\ UNCHANGED <<form, submits, ops>>
    /\ UNCHANGED <<now, session, store, nextId, profile, expenses, todayTotal,
                   showExpenseForm, loading, effectPending, view, profilePc,
                   fetches, deleteId, deleting, del>>

\* finally { setLoading(false) }, on the form the invocation belongs to
FormDone(i) == IF submits[i].mounted THEN [form EXCEPT !.loading = FALSE] ELSE form

\* the row the store keeps of an insert
NewRow(id, row) ==
    [id |-> id, category |-> row.category, amount |-> row.amount,
     description |-> row.description, date |-> row.date]

\* handleSubmit resumes from getUser(): without a user it gives up; otherwise the
\* insert goes out and the store applies it, or fails
SubmitInsert(i, ok) ==
    /\ ~effectPending
    /\ submits[i].pc = "getUser"
    /\ IF session
       THEN /\ submits' = [submits EXCEPT ![i].pc = "response", ![i].error = ~ok]
            /\ store' = IF ok THEN store \cup {NewRow(nextId, submits[i].row)} ELSE store
            /\ nextId' = IF ok THEN nextId + 1 ELSE nextId
            /\ toast' = NULL
            /\ UNCHANGED form
       ELSE /\ submits' = Remove(submits, i)
            /\ toast' = ErrorToast("You must be logged in to add expenses")
            /\ form' = FormDone(i)
            /\ UNCHANGED <<store, nextId>>
    /\ UNCHANGED <<now, session, profile, expenses, todayTotal,
                   showExpenseForm, loading, effectPending, view, profilePc,
                   fetches, deleteId, deleting, del, ops>>

\* handleSubmit resumes from the insert
SubmitResume(i) ==
    /\ ~effectPending
    /\ submits[i].pc = "response"
    /\ IF submits[i].error
       THEN /\ toast' = ErrorToast("error.message")
            /\ submits' = Remove(submits, i)
            /\ form' = FormDone(i)
            /\ UNCHANGED <<showExpenseForm, loading, fetches, view>>
       ELSE /\ toast' = SuccessToast("Expense added successfully")
            \* onSuccess: handleExpenseAdded
            /\ showExpenseForm' = FALSE
            /\ loading' = TRUE
            /\ fetches' = CallFetchExpenses(fetches)
            /\ submits' = Unmount(Remove(submits, i))
            /\ form' = NoForm
            /\ view' = IF showExpenseForm \/ ~loading
                       THEN Render(profile, expenses, todayTotal, TRUE, now)
                       ELSE view
    /\ UNCHANGED <<now, session, store, nextId, profile, expenses, todayTotal,
                   effectPending, profilePc, deleteId, deleting, del, ops>>

(***************************************************************************)
(* ExpenseList.                                                            *)
(***************************************************************************)
\* the trash button of a row
ClickDelete(id) ==
    /\ ~effectPending
    /\ ListShown
    /\ deleteId = NoId
    /\ \E k \in DOMAIN expenses : expenses[k].id = id
    /\ deleteId' = id
    /\ toast' = NULL
    /\ UNCHANGED <<now, session, store, nextId, profile, expenses, todayTotal,
                   showExpenseForm, loading, effectPending, view, profilePc,
                   fetches, form, submits, deleting, del, ops>>

\* onOpenChange of the dialog
CloseDialog ==
    /\ ~effectPending
    /\ ListShown
    /\ deleteId # NoId
    /\ deleteId' = NoId
    /\ toast' = NULL
    /\ UNCHANGED <<now, session, store, nextId, profile, expenses, todayTotal,
                   showExpenseForm, loading, effectPending, view, profilePc,
                   fetches, form, submits, deleting, del, ops>>

\* handleDelete up to its await: the delete goes out and the store applies it, or fails
handleDelete(ok) ==
    /\ ~effectPending
    /\ ListShown
    /\ ~deleting
    /\ deleteId # NoId
    /\ ops < MaxOps
    /\ deleting' = TRUE
    /\ del' = [pc |-> "response", id |-> deleteId, error |-> ~ok]
    /\ store' = IF ok THEN {r \in store : r.id # deleteId} ELSE store
    /\ ops' = ops + 1
    /\ toast' = NULL
    /\ UNCHANGED <<now, session, nextId, profile, expenses, todayTotal,
                   showExpenseForm, loading, effectPending, view, profilePc,
                   fetches, form, submits, deleteId>>

\* a resume that refreshes whatever the store answered
DeleteResumeAlwaysRefresh ==
    /\ ~effectPending
    /\ del.pc = "response"
    /\ del' = NoDelete
    /\ deleting' = FALSE
    /\ deleteId' = NoId
    /\ toast' = IF del.error THEN ErrorToast("Failed to delete expense")
                ELSE SuccessToast("Expense deleted successfully")
    /\ loading' = TRUE
    /\ fetches' = CallFetchExpenses(fetches)
    /\ view' = IF ~loading THEN Render(profile, expenses, todayTotal, TRUE, now) ELSE view
    /\ UNCHANGED <<now, session, store, nextId, profile, expenses, todayTotal,
                   showExpenseForm, effectPending, profilePc, form, submits, ops>>

\* handleDelete resumes from the delete
DeleteResume ==
    /\ ~effectPending
    /\ del.pc = "response"
    /\ del' = NoDelete
    /\ deleting' = FALSE
    /\ deleteId' = NoId
    /\ IF del.error
       THEN /\ toast' = ErrorToast("Failed to delete expense")
            /\ UNCHANGED <<loading, fetches, view>>
       ELSE /\ toast' = SuccessToast("Expense deleted successfully")
            \* onUpdate: fetchExpenses
            /\ loading' = TRUE
            /\ fetches' = CallFetchExpenses(fetches)
            /\ view' = IF ~loading
                       THEN Render(profile, expenses, todayTotal, TRUE, now)
                       ELSE view
    /\ UNCHANGED <<now, session, store, nextId, profile, expenses, todayTotal,
                   showExpenseForm, effectPending, profilePc, form, submits, ops>>

Next ==
    \/ Tick
    \/ SessionExpire
    \/ ProfileGetUser
    \/ \E ok \in BOOLEAN, limit \in DailyLimits : ProfileResume(ok, limit)
    \/ \E i \in DOMAIN fetches, ok \in BOOLEAN : FetchQuery(i, ok)
    \/ \E i \in DOMAIN fetches : FetchResume(i)
    \/ calculateTodayTotal
    \/ OpenForm
    \/ CancelForm
    \/ \E f \in FormInputs : handleSubmit(f.category, f.amount, f.description, f.date)
    \/ \E i \in DOMAIN submits, ok \in BOOLEAN : SubmitInsert(i, ok)
    \/ \E i \in DOMAIN submits : SubmitResume(i)
    \/ \E id \in 1 .. (nextId - 1) : ClickDelete(id)
    \/ CloseDialog
    \/ \E ok \in BOOLEAN : handleDelete(ok)
    \/ DeleteResume

Spec == Init /\ [][Next]_vars

(***************************************************************************)
(* The first load of the dashboard over any store of SampleRows: the two   *)
(* fetches of the mount effect and the [expenses] effect, as time passes.  *)
(***************************************************************************)
InitLoad == \E rows \in SUBSET SampleRows : Mounted(rows)

NextLoad ==
    \/ Tick
    \/ SessionExpire
    \/ ProfileGetUser
    \/ \E ok \in BOOLEAN, limit \in DailyLimits : ProfileResume(ok, limit)
    \/ \E i \in DOMAIN fetches, ok \in BOOLEAN : FetchQuery(i, ok)
    \/ \E i \in DOMAIN fetches : FetchResume(i)
    \/ calculateTodayTotal

SpecLoad == InitLoad /\ [][NextLoad]_vars

(***************************************************************************)
(* Properties.                                                             *)
(***************************************************************************)
Rows(es) == {es[k] : k \in DOMAIN es}

\* the sum of the values of a mapping
RECURSIVE SumValues(_)
SumValues(f) ==
    IF DOMAIN f = {} THEN 0
    ELSE LET c == CHOOSE k \in DOMAIN f : TRUE
         IN  f[c] + SumValues([k \in DOMAIN f \ {c} |-> f[k]])

C2_StrictlyOver ==
    profile # NULL => (view.alert <=> todayTotal > profile.daily_limit)

C2_Witness ==
    /\ profile # NULL
    /\ todayTotal = profile.daily_limit
    /\ todayTotal > 0
    /\ ~view.alert

\* C3: the remaining amount displayed is max(0, daily_limit - todayTotal): the
\* difference while it is positive, and 0.00 otherwise, so also whenever the
\* limit is exceeded and while no profile is loaded.
C3_RemainingFloored ==
    LET limit == IF profile = NULL THEN 0 ELSE profile.daily_limit
    IN  /\ view.remaining =
              ToFixed2(IF limit > todayTotal THEN limit - todayTotal ELSE 0)
        /\ view.alert => view.remaining = "0.00"

C3_Witness ==
    /\ profile # NULL
    /\ profile.daily_limit > 0
    /\ todayTotal > profile.daily_limit
    /\ view.alert
    /\ view.remaining = "0.00"

\* C4: while the profile is unknown the limit-exceeded alert is not shown.
C4_NoAlertWhileUnknown == profile = NULL => ~view.alert

C4_Witness ==
    /\ profile = NULL
    /\ profilePc = "done"
    /\ todayTotal > 0
    /\ ~effectPending
    /\ ~view.alert

\* C5: with no profile the limit and the remaining amount displayed differ from
\* those displayed for a loaded profile whose daily_limit is 0.
ZeroProfile == [daily_limit |-> 0, full_name |-> "User"]

C5_UnknownIsDistinct ==
    profile = NULL =>
        <<view.limit, view.remaining>> #
            <<LimitText(ZeroProfile), ToFixed2(Remaining(ZeroProfile, todayTotal))>>

\* C6: once the effect has recomputed todayTotal, the today's total displayed is
\* the sum of the amounts of the records the transaction count displayed counts:
\* those of the list dated the day the render took for today.
C6_OneToday ==
    ~effectPending =>
        /\ view.todayCount = Len(FilterDate(expenses, view.today))
        /\ view.todayTotal = ToFixed2(SumAmounts(FilterDate(expenses, view.today)))

\* C7: an insert request is sent only for fields with a category, a positive
\* amount, a description of at most 500 characters and a date that is not empty
\* and not later than the current date.
C7_InsertOnlyIfValid ==
    \A i \in DOMAIN submits :
        submits[i].pc = "response" =>
            /\ submits[i].row.category # ""
            /\ submits[i].row.amount > 0
            /\ submits[i].row.description <= 500
            /\ submits[i].row.date # EmptyDate
            /\ submits[i].row.date <= ISODate(now)

\* C8: the step in which handleSubmit or handleDelete resumes from an error of the
\* store raises an error notification, ends the operation, starts no insert, no
\* delete and no reload, and leaves the store and the dashboard's list as they are.
InsertFailed ==
    \E i \in DOMAIN submits :
        submits[i].pc = "response" /\ submits[i].error /\ submits' = Remove(submits, i)

DeleteFailed == del.pc = "response" /\ del.error /\ del' = NoDelete

Abandoned ==
    /\ toast' # NULL
    /\ toast'.title = "Error"
    /\ toast'.variant = "destructive"
    /\ expenses' = expenses
    /\ view' = view
    /\ fetches' = fetches
    /\ loading' = loading
    /\ store' = store
    /\ ops' = ops

C8_ErrorAbandons ==
    [][ /\ InsertFailed => (Abandoned /\ del' = del)
        /\ DeleteFailed => (Abandoned /\ submits' = submits /\ ~deleting') ]_vars

C8_Witness ==
    /\ toast = ErrorToast("Failed to delete expense")
    /\ del = NoDelete
    /\ ~deleting
    /\ ops > 0
    /\ Rows(expenses) = store

\* C9: when the list holds the rows of the store and the only running reload
\* delivers its rows, the user being signed in and no insert or delete running,
\* the list still holds the rows of the store: the rows of an older reload do
\* not replace those of a newer state of the store.
C9_LastReloadShowsStore ==
    [][ ( /\ session
          /\ Rows(expenses) = store
          /\ Len(fetches) = 1
          /\ fetches[1].pc = "response"
          /\ ~fetches[1].error
          /\ fetches' = <<>>
          /\ submits = <<>>
          /\ del.pc = "idle" )
        => Rows(expenses') = store' ]_vars

\* C10: once no fetchExpenses is running, the list no longer shows
\* "Loading expenses...".
C10_LoadingEnds == fetches = <<>> => (~loading /\ ~view.listLoading)
=============================================================================
